---- MODULE Spec2Model ----
(***************************************************************************)
(* A model of escpos.go: the Escpos printer session (font metrics and      *)
(* style toggles), the opcode writers, the node operations Text, Feed,     *)
(* FeedAndCut, Pulse and Image, and the PNG-to-raster pipeline.            *)
(*                                                                         *)
(* Strings are sequences of one-character strings; a write to the sink is  *)
(* a sequence of bytes (0..255).  A method of *Escpos is an operator on a  *)
(* "run" m = [e, w, log, panic, err, accept, rej]: e the Escpos fields, w   *)
(* the writes issued to dst so far in the current operation, log the       *)
(* beelog levels logged, panic whether a Go runtime panic has unwound the  *)
(* operation, err the error value PrintImage returned, accept the number   *)
(* of writes dst takes before its Write starts to return an error (-1: it  *)
(* never does), rej for each write issued whether dst.Write returned an    *)
(* error.                                                                  *)
(***************************************************************************)
EXTENDS Integers, Sequences, FiniteSets, TLC

VARIABLES
    e,        \* the Escpos struct: width, height and the five toggles
    out,      \* the writes the last operation issued to dst, in order
    rejected, \* for each of them, whether dst.Write returned an error
    log,      \* the log levels the last operation emitted, in order
    panic,    \* TRUE when the last operation ended in a runtime panic
    ret,      \* what the last operation returned to its caller
    printer,  \* per style setting, the parameter of the last opcode emitted for it
    op,       \* the operation that has just returned and its arguments
    pre       \* the Escpos struct as it was before that operation

vars == <<e, out, rejected, log, panic, ret, printer, op, pre>>

----------------------------------------------------------------------------
(* Bounds of the model *)

\* SetFontSize is called with width and height in 0..MaxArg
MaxArg == 9
\* images are MaxDim x MaxDim pixels at most (plus the sizes of WideSizes)
MaxDim == 16
\* a failing dst takes 0..MaxAccept writes before its Write returns an error
MaxAccept == 3

----------------------------------------------------------------------------
(* Bytes, fixed-width arithmetic *)

Byte == 0 .. 255

\* conversion of an int to uint8 / uint16
Uint8(i) == i % 256
Uint16(i) == i % 65536

RECURSIVE BitOr(_, _)
BitOr(a, b) ==
    IF a = 0 THEN b
    ELSE IF b = 0 THEN a
    ELSE 2 * BitOr(a \div 2, b \div 2) + (IF a % 2 = 1 \/ b % 2 = 1 THEN 1 ELSE 0)

RECURSIVE BitAnd(_, _)
BitAnd(a, b) ==
    IF a = 0 \/ b = 0 THEN 0
    ELSE 2 * BitAnd(a \div 2, b \div 2) + (IF a % 2 = 1 /\ b % 2 = 1 THEN 1 ELSE 0)

\* x << k and x >> k on non-negative ints
Shl(x, k) == x * (2 ^ k)
Shr(x, k) == x \div (2 ^ k)

\* opcode lead bytes and the characters of the opcodes
ESC == 27
GS == 29

----------------------------------------------------------------------------
(* Strings *)

Lower == <<"a","b","c","d","e","f","g","h","i","j","k","l","m",
           "n","o","p","q","r","s","t","u","v","w","x","y","z">>
Upper == <<"A","B","C","D","E","F","G","H","I","J","K","L","M",
           "N","O","P","Q","R","S","T","U","V","W","X","Y","Z">>
Digits == <<"0","1","2","3","4","5","6","7","8","9">>

\* the byte of a character (ASCII), for the characters the model writes
CharCode(c) ==
    IF \E i \in 1 .. 26 : Lower[i] = c THEN 96 + (CHOOSE i \in 1 .. 26 : Lower[i] = c)
    ELSE IF \E i \in 1 .. 26 : Upper[i] = c THEN 64 + (CHOOSE i \in 1 .. 26 : Upper[i] = c)
    ELSE IF \E i \in 1 .. 10 : Digits[i] = c THEN 47 + (CHOOSE i \in 1 .. 10 : Digits[i] = c)
    ELSE CASE c = "&" -> 38 [] c = "#" -> 35 [] c = ";" -> 59 [] c = "'" -> 39
           [] c = "\"" -> 34 [] c = ">" -> 62 [] c = "<" -> 60 [] c = "\t" -> 9
           [] c = "\n" -> 10 [] c = " " -> 32 [] c = "_" -> 95 [] c = "-" -> 45
           [] c = "+" -> 43

\* []byte(data)
Bytes(s) == [i \in 1 .. Len(s) |-> CharCode(s[i])]

\* strings.ToUpper on a string
ToUpper(s) ==
    [i \in 1 .. Len(s) |->
        IF \E j \in 1 .. 26 : Lower[j] = s[i]
        THEN Upper[CHOOSE j \in 1 .. 26 : Lower[j] = s[i]]
        ELSE s[i]]

\* strconv.Atoi: an optional sign, then one or more decimal digits
DigitVal(c) == (CHOOSE i \in 1 .. 10 : Digits[i] = c) - 1
IsDigit(c) == \E i \in 1 .. 10 : Digits[i] = c

RECURSIVE DigitsVal(_, _)
DigitsVal(s, acc) ==
    IF s = <<>> THEN acc ELSE DigitsVal(Tail(s), 10 * acc + DigitVal(Head(s)))

Atoi(s) ==
    LET signed == s # <<>> /\ Head(s) \in {"-", "+"}
        body == IF signed THEN Tail(s) ELSE s
    IN  IF body = <<>> \/ \E i \in 1 .. Len(body) : ~IsDigit(body[i])
        THEN [ok |-> FALSE, i |-> 0]
        ELSE [ok |-> TRUE,
              i |-> IF signed /\ Head(s) = "-" THEN 0 - DigitsVal(body, 0)
                    ELSE DigitsVal(body, 0)]

----------------------------------------------------------------------------
(* The Escpos struct *)

\* reset as it would be with the last field forgotten
resetKeepsReverse(m) ==
    [m EXCEPT !.e = [width |-> 1, height |-> 1, underline |-> 0, emphasize |-> 0,
                     upsidedown |-> 0, rotate |-> 0, reverse |-> m.e.reverse]]

\* reset toggles
reset(m) ==
    [m EXCEPT !.e = [width |-> 1, height |-> 1, underline |-> 0, emphasize |-> 0,
                     upsidedown |-> 0, rotate |-> 0, reverse |-> 0]]

\* New: the struct after reset, nothing written
New == reset([e |-> [width |-> 0, height |-> 0, underline |-> 0, emphasize |-> 0,
                     upsidedown |-> 0, rotate |-> 0, reverse |-> 0],
              w |-> <<>>, log |-> <<>>, panic |-> FALSE, err |-> "nil",
              accept |-> -1, rej |-> <<>>])

\* a run of an operation that starts from the struct s, on a dst that takes
\* every write
Start(s) == [e |-> s, w |-> <<>>, log |-> <<>>, panic |-> FALSE, err |-> "nil",
             accept |-> -1, rej |-> <<>>]

\* the same on a dst whose Write returns an error after k writes
StartFailing(s, k) == [Start(s) EXCEPT !.accept = k]

\* beelog.Warn / beelog.Critical
Log(m, level) == [m EXCEPT !.log = Append(@, level)]

\* WriteRaw: non-empty data goes to dst, the result of dst.Write is dropped
WriteRaw(m, data) ==
    IF Len(data) > 0
    THEN [m EXCEPT !.w = Append(@, data),
                   !.rej = Append(@, m.accept >= 0 /\ Len(m.w) >= m.accept)]
    ELSE m

\* what WriteRaw returns: 0, nil
WriteRawResult(m, data) == [n |-> 0, err |-> "nil"]

\* Write a string
Write(m, data) == WriteRaw(m, Bytes(data))

\* Init as it would be without the reset of the struct
EscposInitNoReset(m) == WriteRaw(m, <<ESC, 64>>)

\* Init: ESC @
EscposInit(m) == WriteRaw(reset(m), <<ESC, 64>>)

\* Cut: GS V A 0
Cut(m) == WriteRaw(m, <<GS, 86, 65, 48>>)

\* Linefeed
Linefeed(m) == Write(m, <<"\n">>)

\* FormfeedN: n is a uint8, so neither clamp branch can be taken
FormfeedN(m, n) ==
    LET n1 == IF n < 0 THEN 0 ELSE IF n > 255 THEN 255 ELSE n
    IN  WriteRaw(m, <<ESC, 74, n1>>)

\* Formfeed
Formfeed(m) == FormfeedN(m, 1)

\* SetFont: ESC M n
SetFont(m, font) ==
    LET known == font \in {<<"A">>, <<"B">>, <<"C">>}
        f == CASE font = <<"A">> -> 0
               [] font = <<"B">> -> 1
               [] font = <<"C">> -> 2
               [] OTHER -> 0
        m1 == IF known THEN m ELSE Log(m, "Warn")
    IN  WriteRaw(m1, <<ESC, 77, f>>)

\* sendFontSize: GS ! n, n computed in uint8
sendFontSize(m) ==
    WriteRaw(m, <<GS, 33, BitOr(Uint8(Shl(Uint8(m.e.width - 1), 4)),
                                Uint8(m.e.height - 1))>>)

\* SetFontSize as it would be without the cap of the height at 5
SetFontSizeNoCap(m, width, height) ==
    IF width > 0 /\ height > 0 /\ width <= 8 /\ height <= 8
    THEN sendFontSize([m EXCEPT !.e.width = width, !.e.height = height])
    ELSE Log(m, "Critical")

\* SetFontSize as it would be without the lower bounds of the range check
SetFontSizeNoLowerBound(m, width, height) ==
    IF width <= 8 /\ height <= 8
    THEN LET capped == height > 5
             height1 == IF capped THEN 5 ELSE height
             m1 == IF capped THEN Log(m, "Warn") ELSE m
         IN  sendFontSize([m1 EXCEPT !.e.width = width, !.e.height = height1])
    ELSE Log(m, "Critical")

\* SetFontSize
SetFontSize(m, width, height) ==
    IF width > 0 /\ height > 0 /\ width <= 8 /\ height <= 8
    THEN LET capped == height > 5
             height1 == IF capped THEN 5 ELSE height
             m1 == IF capped THEN Log(m, "Warn") ELSE m
         IN  sendFontSize([m1 EXCEPT !.e.width = width, !.e.height = height1])
    ELSE Log(m, "Critical")

sendUnderline(m) == WriteRaw(m, <<ESC, 45, m.e.underline>>)
sendEmphasize(m) == WriteRaw(m, <<ESC, 69, m.e.emphasize>>)
sendUpsidedown(m) == WriteRaw(m, <<ESC, 123, m.e.upsidedown>>)
sendRotate(m) == WriteRaw(m, <<ESC, 86, m.e.rotate>>)
sendReverse(m) == WriteRaw(m, <<GS, 66, m.e.reverse>>)

\* sendMoveX / sendMoveY: x is a uint16
sendMoveX(m, x) == WriteRaw(m, <<ESC, 36, Uint8(x % 256), Uint8(x \div 256)>>)
sendMoveY(m, y) == WriteRaw(m, <<GS, 36, Uint8(y % 256), Uint8(y \div 256)>>)

\* SetEmphasize as it would be if it stored into the neighbouring field
SetEmphasizeIntoUnderline(m, u) == sendEmphasize([m EXCEPT !.e.underline = u])

SetUnderline(m, v) == sendUnderline([m EXCEPT !.e.underline = v])
SetEmphasize(m, u) == sendEmphasize([m EXCEPT !.e.emphasize = u])
SetUpsidedown(m, v) == sendUpsidedown([m EXCEPT !.e.upsidedown = v])
SetRotate(m, v) == sendRotate([m EXCEPT !.e.rotate = v])
SetReverse(m, v) == sendReverse([m EXCEPT !.e.reverse = v])

SetMoveX(m, x) == sendMoveX(m, x)

\* Pulse: ESC p 2
Pulse(m) == WriteRaw(m, <<ESC, 112, 2>>)

\* SetAlign as it would be if an unknown name were refused
SetAlignRefuses(m, align) ==
    CASE align = <<"l","e","f","t">> -> WriteRaw(m, <<ESC, 97, 0>>)
      [] align = <<"c","e","n","t","e","r">> -> WriteRaw(m, <<ESC, 97, 1>>)
      [] align = <<"r","i","g","h","t">> -> WriteRaw(m, <<ESC, 97, 2>>)
      [] OTHER -> Log(m, "Warn")

\* SetAlign: ESC a n
SetAlign(m, align) ==
    LET known == align \in {<<"l","e","f","t">>, <<"c","e","n","t","e","r">>,
                            <<"r","i","g","h","t">>}
        a == CASE align = <<"l","e","f","t">> -> 0
               [] align = <<"c","e","n","t","e","r">> -> 1
               [] align = <<"r","i","g","h","t">> -> 2
               [] OTHER -> 0
        m1 == IF known THEN m ELSE Log(m, "Warn")
    IN  WriteRaw(m1, <<ESC, 97, a>>)

----------------------------------------------------------------------------
(* Parameter maps: map[string]string as a function whose domain is the set *)
(* of keys present                                                         *)

Has(params, k) == k \in DOMAIN params

\* v == "true" || v == "1"
IsOn(v) == v = <<"t","r","u","e">> \/ v = <<"1">>

----------------------------------------------------------------------------
(* Text replacement *)

\* textReplaceMap
textReplaceMap ==
    (<<"&","#","9",";">> :> <<"\t">>) @@
    (<<"&","#","x","9",";">> :> <<"\t">>) @@
    (<<"&","#","1","0",";">> :> <<"\n">>) @@
    (<<"&","#","x","A",";">> :> <<"\n">>) @@
    (<<"&","a","p","o","s",";">> :> <<"'">>) @@
    (<<"&","q","u","o","t",";">> :> <<"\"">>) @@
    (<<"&","g","t",";">> :> <<">">>) @@
    (<<"&","l","t",";">> :> <<"<">>) @@
    (<<"&","a","m","p",";">> :> <<"&">>)

\* strings.Replace(s, old, new, -1): every non-overlapping old, left to right
RECURSIVE Replace(_, _, _)
Replace(s, old, new) ==
    IF Len(s) < Len(old) THEN s
    ELSE IF SubSeq(s, 1, Len(old)) = old
         THEN new \o Replace(SubSeq(s, Len(old) + 1, Len(s)), old, new)
         ELSE <<Head(s)>> \o Replace(Tail(s), old, new)

\* textReplace: one Replace per key, in the order the map iteration yields
\* the keys (Go leaves the order of a range over a map unspecified)
RECURSIVE textReplace(_, _)
textReplace(data, order) ==
    IF order = <<>> THEN data
    ELSE textReplace(Replace(data, Head(order), textReplaceMap[Head(order)]),
                     Tail(order))

----------------------------------------------------------------------------
(* Text *)

TextAlign(m, params) ==
    IF m.panic \/ ~Has(params, "Align") THEN m ELSE SetAlign(m, params["Align"])

TextEM(m, params) ==
    IF m.panic \/ ~(Has(params, "EM") /\ IsOn(params["EM"])) THEN m
    ELSE SetEmphasize(m, 1)

TextUL(m, params) ==
    IF m.panic \/ ~(Has(params, "UL") /\ IsOn(params["UL"])) THEN m
    ELSE SetUnderline(m, 1)

TextReverse(m, params) ==
    IF m.panic \/ ~(Has(params, "Reverse") /\ IsOn(params["Reverse"])) THEN m
    ELSE SetReverse(m, 1)

TextRotate(m, params) ==
    IF m.panic \/ ~(Has(params, "Rotate") /\ IsOn(params["Rotate"])) THEN m
    ELSE SetRotate(m, 1)

\* font[5:6] panics (slice bounds out of range) on a string shorter than 6
TextFont(m, params) ==
    IF m.panic \/ ~Has(params, "Font") THEN m
    ELSE IF Len(params["Font"]) < 6 THEN [m EXCEPT !.panic = TRUE]
    ELSE SetFont(m, ToUpper(SubSeq(params["Font"], 6, 6)))

TextDW(m, params) ==
    IF m.panic \/ ~(Has(params, "DW") /\ IsOn(params["DW"])) THEN m
    ELSE SetFontSize(m, 2, m.e.height)

TextDH(m, params) ==
    IF m.panic \/ ~(Has(params, "DH") /\ IsOn(params["DH"])) THEN m
    ELSE SetFontSize(m, m.e.width, 2)

\* the Width block as it would be if it stored the converted value unchecked
TextWidthUnchecked(m, params) ==
    IF m.panic \/ ~Has(params, "Width") THEN m
    ELSE LET r == Atoi(params["Width"])
         IN  IF r.ok THEN sendFontSize([m EXCEPT !.e.width = Uint8(r.i)])
             ELSE Log(m, "Critical")

TextWidth(m, params) ==
    IF m.panic \/ ~Has(params, "Width") THEN m
    ELSE LET r == Atoi(params["Width"])
         IN  IF r.ok THEN SetFontSize(m, Uint8(r.i), m.e.height)
             ELSE Log(m, "Critical")

TextHeight(m, params) ==
    IF m.panic \/ ~Has(params, "Height") THEN m
    ELSE LET r == Atoi(params["Height"])
         IN  IF r.ok THEN SetFontSize(m, m.e.width, Uint8(r.i))
             ELSE Log(m, "Critical")

\* TextX as it would be if the value Atoi returns with an error were used
TextXUsesFailedValue(m, params) ==
    IF m.panic \/ ~Has(params, "X") THEN m
    ELSE sendMoveX(m, Uint16(Atoi(params["X"]).i))

TextX(m, params) ==
    IF m.panic \/ ~Has(params, "X") THEN m
    ELSE LET r == Atoi(params["X"])
         IN  IF r.ok THEN sendMoveX(m, Uint16(r.i)) ELSE Log(m, "Critical")

TextY(m, params) ==
    IF m.panic \/ ~Has(params, "Y") THEN m
    ELSE LET r == Atoi(params["Y"])
         IN  IF r.ok THEN sendMoveY(m, Uint16(r.i)) ELSE Log(m, "Critical")

TextData(m, data, order) ==
    IF m.panic THEN m
    ELSE LET data1 == textReplace(data, order)
         IN  IF Len(data1) > 0 THEN Write(m, data1) ELSE m

\* Text as it would be with the rotate and reverse blocks exchanged
TextRotateFirst(m, params, data, order) ==
    LET m1 == TextAlign(m, params)
        m2 == TextEM(m1, params)
        m3 == TextUL(m2, params)
        m4 == TextRotate(m3, params)
        m5 == TextReverse(m4, params)
        m6 == TextFont(m5, params)
        m7 == TextDW(m6, params)
        m8 == TextDH(m7, params)
        m9 == TextWidth(m8, params)
        m10 == TextHeight(m9, params)
        m11 == TextX(m10, params)
        m12 == TextY(m11, params)
    IN  TextData(m12, data, order)

Text(m, params, data, order) ==
    LET m1 == TextAlign(m, params)
        m2 == TextEM(m1, params)
        m3 == TextUL(m2, params)
        m4 == TextReverse(m3, params)
        m5 == TextRotate(m4, params)
        m6 == TextFont(m5, params)
        m7 == TextDW(m6, params)
        m8 == TextDH(m7, params)
        m9 == TextWidth(m8, params)
        m10 == TextHeight(m9, params)
        m11 == TextX(m10, params)
        m12 == TextY(m11, params)
    IN  TextData(m12, data, order)

----------------------------------------------------------------------------
(* Feed, FeedAndCut *)

FeedLine(m, params) ==
    IF ~Has(params, "Line") THEN m
    ELSE LET r == Atoi(params["Line"])
         IN  IF r.ok THEN FormfeedN(m, Uint8(r.i)) ELSE Log(m, "Critical")

FeedUnit(m, params) ==
    IF ~Has(params, "Unit") THEN m
    ELSE LET r == Atoi(params["Unit"])
         IN  IF r.ok THEN sendMoveY(m, Uint16(r.i)) ELSE Log(m, "Critical")

\* Feed as it would be without the sendReverse of the resync
FeedNoSendReverse(m, params) ==
    LET m1 == FeedUnit(FeedLine(m, params), params)
        m2 == reset(Linefeed(m1))
    IN  sendFontSize(sendUpsidedown(sendUnderline(sendRotate(sendEmphasize(m2)))))

Feed(m, params) ==
    LET m1 == FeedUnit(FeedLine(m, params), params)
        m2 == reset(Linefeed(m1))
    IN  sendFontSize(sendUpsidedown(sendUnderline(sendReverse(sendRotate(
            sendEmphasize(m2))))))

FeedAndCut(m, params) ==
    LET m1 == IF Has(params, "Type") /\ params["Type"] = <<"f","e","e","d">>
              THEN Formfeed(m) ELSE m
    IN  Cut(m1)

----------------------------------------------------------------------------
(* The image pipeline.  An image payload is modelled by what decoding it   *)
(* gives: img.kind is "png" for a base64 text wrapping a decodable PNG of  *)
(* img.w x img.h pixels painted with img.pat, and "badbase64" or           *)
(* "corruptpng" for a payload image.Decode rejects.                        *)

\* the colours of the model's images, as color.RGBA() returns them:
\* 16-bit channels, alpha-premultiplied
Colour(name) ==
    CASE name = "black" -> [r |-> 0, g |-> 0, b |-> 0, a |-> 65535]
      [] name = "white" -> [r |-> 65535, g |-> 65535, b |-> 65535, a |-> 65535]
      [] name = "red"   -> [r |-> 65535, g |-> 0, b |-> 0, a |-> 65535]
      [] name = "green" -> [r |-> 0, g |-> 65535, b |-> 0, a |-> 65535]
      [] name = "clear" -> [r |-> 0, g |-> 0, b |-> 0, a |-> 0]
      [] name = "smoke" -> [r |-> 0, g |-> 0, b |-> 0, a |-> 32896]

\* img.At(x, y).RGBA() of the decoded image
At(img, x, y) ==
    CASE img.pat = "black" -> Colour("black")
      [] img.pat = "white" -> Colour("white")
      [] img.pat = "checker" ->
            IF (x + y) % 2 = 0 THEN Colour("black") ELSE Colour("white")
      [] img.pat = "edges" ->
            IF x = img.w - 1 \/ y = img.h - 1 THEN Colour("black") ELSE Colour("white")
      [] img.pat = "stripes" ->
            IF x % 3 = 0 THEN Colour("red") ELSE Colour("green")
      [] img.pat = "glass" ->
            IF y % 2 = 0 THEN Colour("clear")
            ELSE IF x % 5 = 1 THEN Colour("smoke") ELSE Colour("white")

\* rgbaToPixel
rgbaToPixel(r, g, b, a) ==
    [R |-> Shr(r, 8), G |-> Shr(g, 8), B |-> Shr(b, 8), A |-> Shr(a, 8)]

\* getPixels: width, height and the rows of pixels (indexed from 0), or an error
getPixels(img) ==
    IF img.kind # "png"
    THEN [width |-> 0, height |-> 0, pixels |-> <<>>, err |-> "decode"]
    ELSE [width |-> img.w, height |-> img.h,
          pixels |-> [y \in 0 .. img.h - 1 |-> [x \in 0 .. img.w - 1 |->
                        LET c == At(img, x, y) IN rgbaToPixel(c.r, c.g, c.b, c.a)]],
          err |-> "nil"]

\* removeTransparency: every pixel composed over white
removeTransparency(pixels) ==
    [y \in DOMAIN pixels |-> [x \in DOMAIN pixels[y] |->
        LET pixel == pixels[y][x]
            alpha == pixel.A
            invAlpha == 255 - alpha
        IN  [R |-> (alpha * pixel.R + invAlpha * 255) \div 255,
             G |-> (alpha * pixel.G + invAlpha * 255) \div 255,
             B |-> (alpha * pixel.B + invAlpha * 255) \div 255,
             A |-> 255]]]

\* makeGrayscale: luminance 0.299 R + 0.587 G + 0.114 B against 128, in
\* thousandths (the colours of the model are away from the threshold, where
\* float64 rounding decides)
makeGrayscale(pixels) ==
    [y \in DOMAIN pixels |-> [x \in DOMAIN pixels[y] |->
        LET pixel == pixels[y][x]
            luminance == 299 * pixel.R + 587 * pixel.G + 114 * pixel.B
            value == IF luminance < 128000 THEN 0 ELSE 255
        IN  [pixel EXCEPT !.R = value, !.G = value, !.B = value]]]

closestNDivisibleBy8(n) ==
    LET q == n \div 8
        n1 == q * 8
    IN  n1

getPixelValue(x, y, pixels) ==
    LET row == pixels[y]
        pixel == row[x]
    IN  IF pixel.R > 0 THEN 0 ELSE 1

\* rasterByte as it would be with the least significant bit first
rasterByteLsbFirst(x, y, pixels) ==
    Uint8(BitOr(Shl(getPixelValue(x + 7, y, pixels), 7),
          BitOr(Shl(getPixelValue(x + 6, y, pixels), 6),
          BitOr(Shl(getPixelValue(x + 5, y, pixels), 5),
          BitOr(Shl(getPixelValue(x + 4, y, pixels), 4),
          BitOr(Shl(getPixelValue(x + 3, y, pixels), 3),
          BitOr(Shl(getPixelValue(x + 2, y, pixels), 2),
          BitOr(Shl(getPixelValue(x + 1, y, pixels), 1),
                getPixelValue(x + 0, y, pixels)))))))))

\* the byte rasterize stores at index y*(printWidth>>3) + (x>>3)
rasterByte(x, y, pixels) ==
    Uint8(BitOr(Shl(getPixelValue(x + 0, y, pixels), 7),
          BitOr(Shl(getPixelValue(x + 1, y, pixels), 6),
          BitOr(Shl(getPixelValue(x + 2, y, pixels), 5),
          BitOr(Shl(getPixelValue(x + 3, y, pixels), 4),
          BitOr(Shl(getPixelValue(x + 4, y, pixels), 3),
          BitOr(Shl(getPixelValue(x + 5, y, pixels), 2),
          BitOr(Shl(getPixelValue(x + 6, y, pixels), 1),
                getPixelValue(x + 7, y, pixels)))))))))

\* rasterize: the packed bytes as a sequence, or an error.  The loops over y
\* and over x (in steps of 8) store bytes[y*(printWidth>>3) + (x>>3)] once for
\* each index i of bytes, at y = i / (printWidth>>3), x = 8 * (i % (printWidth>>3))
rasterize(printWidth, printHeight, pixels) ==
    IF printWidth % 8 # 0 \/ printHeight % 8 # 0
    THEN [bytes |-> <<>>, err |-> "multiple of 8"]
    ELSE LET n == Shr(printWidth * printHeight, 3)
             stride == Shr(printWidth, 3)
         IN  [bytes |-> [i \in 1 .. n |->
                            rasterByte(8 * ((i - 1) % stride), (i - 1) \div stride, pixels)],
              err |-> "nil"]

\* PrintImage as it would be with the header taken from the rounded sizes
PrintImageRounded(m, imgFile) ==
    LET got == getPixels(imgFile)
    IN  IF got.err # "nil" THEN [m EXCEPT !.err = got.err]
        ELSE LET pixels == makeGrayscale(removeTransparency(got.pixels))
                 printWidth == closestNDivisibleBy8(got.width)
                 printHeight == closestNDivisibleBy8(got.height)
                 bytes == rasterize(printWidth, printHeight, pixels).bytes
                 imageData == <<29, 118, 48, 0>> \o
                              <<Uint8(BitAnd(Shr(printWidth, 3), 255)),
                                Uint8(BitAnd(Shr(Shr(printWidth, 3), 8), 255)),
                                Uint8(BitAnd(printHeight, 255)),
                                Uint8(BitAnd(Shr(printHeight, 8), 255))>> \o bytes
             IN  [WriteRaw(m, imageData) EXCEPT !.err = "nil"]

\* PrintImage: m.err is the error it returns
PrintImage(m, imgFile) ==
    LET got == getPixels(imgFile)
    IN  IF got.err # "nil" THEN [m EXCEPT !.err = got.err]
        ELSE LET width == got.width
                 height == got.height
                 pixels == makeGrayscale(removeTransparency(got.pixels))
                 printWidth == closestNDivisibleBy8(width)
                 printHeight == closestNDivisibleBy8(height)
                 bytes == rasterize(printWidth, printHeight, pixels).bytes
                 imageHeader == <<29, 118, 48, 0>>
                 imageData == imageHeader \o
                              <<Uint8(BitAnd(Shr(width, 3), 255)),
                                Uint8(BitAnd(Shr(Shr(width, 3), 8), 255)),
                                Uint8(BitAnd(height, 255)),
                                Uint8(BitAnd(Shr(height, 8), 255))>> \o bytes
             IN  [WriteRaw(m, imageData) EXCEPT !.err = "nil"]

\* Image: the value PrintImage returns is dropped
Image(m, params, data) ==
    LET m1 == IF Has(params, "Align") THEN SetAlign(m, params["Align"]) ELSE m
        hasW == Has(params, "Width")
        m2 == IF hasW THEN m1 ELSE Log(m1, "Critical")
        widthStr == IF hasW THEN params["Width"] ELSE <<>>
        hasH == Has(params, "Height")
        m3 == IF hasH THEN m2 ELSE Log(m2, "Critical")
        heightStr == IF hasH THEN params["Height"] ELSE <<>>
        m4 == IF Atoi(widthStr).ok THEN m3 ELSE Log(m3, "Critical")
        m5 == IF Atoi(heightStr).ok THEN m4 ELSE Log(m4, "Critical")
    IN  PrintImage(m5, data)

\* WriteNode: the operation named by params["Name"]; the payload is the text
\* of Text or the image of Image
WriteNode(m, params, data, img, order) ==
    LET ok == Has(params, "Name")
        name == IF ok THEN (IF params["Name"] = <<>> THEN <<"p","u","l","s","e">>
                            ELSE params["Name"])
                ELSE <<>>
    IN  CASE name = <<"t","e","x","t">> -> Text(m, params, data, order)
          [] name = <<"f","e","e","d">> -> Feed(m, params)
          [] name = <<"c","u","t">> -> FeedAndCut(m, params)
          [] name = <<"p","u","l","s","e">> -> Pulse(m)
          [] name = <<"i","m","a","g","e">> -> Image(m, params, img)
          [] OTHER -> m

----------------------------------------------------------------------------
(* The printer's side of the stream: per style setting, the parameter of    *)
(* the opcode last written for it; ESC @ puts every setting at its default  *)

PrinterDefaults ==
    [underline |-> 0, emphasize |-> 0, upsidedown |-> 0, rotate |-> 0,
     reverse |-> 0, fontsize |-> 0]

PrinterApply(p, w) ==
    IF w = <<ESC, 64>> THEN PrinterDefaults
    ELSE IF Len(w) # 3 THEN p
    ELSE CASE w[1] = ESC /\ w[2] = 45  -> [p EXCEPT !.underline = w[3]]
           [] w[1] = ESC /\ w[2] = 69  -> [p EXCEPT !.emphasize = w[3]]
           [] w[1] = ESC /\ w[2] = 123 -> [p EXCEPT !.upsidedown = w[3]]
           [] w[1] = ESC /\ w[2] = 86  -> [p EXCEPT !.rotate = w[3]]
           [] w[1] = GS /\ w[2] = 66   -> [p EXCEPT !.reverse = w[3]]
           [] w[1] = GS /\ w[2] = 33   -> [p EXCEPT !.fontsize = w[3]]
           [] OTHER -> p

RECURSIVE PrinterAfter(_, _, _)
PrinterAfter(p, ws, rej) ==
    IF ws = <<>> THEN p
    ELSE PrinterAfter(IF Head(rej) THEN p ELSE PrinterApply(p, Head(ws)),
                      Tail(ws), Tail(rej))

----------------------------------------------------------------------------
(* Inputs of the operations *)

Bit == {0, 1}

NoParams == [k \in {} |-> <<>>]
NoImage == [kind |-> "none", w |-> 0, h |-> 0, pat |-> "none"]

\* the parameter maps with exactly one key of kv, and with exactly two
Params1(kv) == UNION {{k :> v : v \in kv[k]} : k \in DOMAIN kv}
Params2(kv) ==
    UNION {{(k1 :> v1) @@ (k2 :> v2) : v1 \in kv[k1], v2 \in kv[k2]} :
           <<k1, k2>> \in {kk \in (DOMAIN kv) \X (DOMAIN kv) : kk[1] # kk[2]}}
\* the parameter maps that give some of the keys of c the value c has for it
ParamsOf(c) == {[k \in D |-> c[k]] : D \in SUBSET DOMAIN c}
\* those that leave out two keys of c at most
ParamsMost(c) ==
    {[k \in D |-> c[k]] :
        D \in {DOMAIN c \ {k1, k2} : k1 \in DOMAIN c, k2 \in DOMAIN c}}
\* every map that gives each key of kv one of its values, or leaves it out
RECURSIVE ParamsAll(_)
ParamsAll(kv) ==
    IF DOMAIN kv = {} THEN {NoParams}
    ELSE LET k == CHOOSE x \in DOMAIN kv : TRUE
             rest == ParamsAll([x \in DOMAIN kv \ {k} |-> kv[x]])
         IN  rest \cup {(k :> v) @@ r : v \in kv[k], r \in rest}

AlignValues == {<<"l","e","f","t">>, <<"c","e","n","t","e","r">>,
                <<"r","i","g","h","t">>, <<"b","o","g","u","s">>}
FlagValues == {<<"t","r","u","e">>, <<"1">>, <<"0">>}
FontValues == {<<"f","o","n","t","_","a">>, <<"f","o","n","t","_","b">>,
               <<"F","o","n","t","_","C">>, <<"f","o","n","t","_","x">>,
               <<"b">>, <<>>}
SizeValues == {<<"0">>, <<"3">>, <<"7">>, <<"9">>, <<"2","5","7">>, <<"2","6","4">>,
               <<"-","1">>, <<"x">>}
MoveValues == {<<"0">>, <<"3","0","0">>, <<"7","0","0","0","0">>, <<"-","1">>,
               <<"1","x">>}

TextValues ==
    [Align |-> AlignValues, EM |-> FlagValues, UL |-> FlagValues,
     Reverse |-> FlagValues, Rotate |-> FlagValues, Font |-> FontValues,
     DW |-> FlagValues, DH |-> FlagValues, Width |-> SizeValues,
     Height |-> SizeValues, X |-> MoveValues, Y |-> MoveValues]

\* the values of the maps with two keys
TextPairValues ==
    [Align |-> {<<"r","i","g","h","t">>, <<"b","o","g","u","s">>},
     EM |-> {<<"t","r","u","e">>, <<"0">>}, UL |-> {<<"1">>, <<"0">>},
     Reverse |-> {<<"1">>, <<"0">>}, Rotate |-> {<<"t","r","u","e">>, <<"0">>},
     Font |-> {<<"F","o","n","t","_","C">>, <<"b">>},
     DW |-> {<<"1">>, <<"0">>}, DH |-> {<<"t","r","u","e">>, <<"0">>},
     Width |-> {<<"3">>, <<"9">>, <<"x">>}, Height |-> {<<"7">>, <<"0">>, <<"x">>},
     X |-> {<<"3","0","0">>, <<"1","x">>}, Y |-> {<<"7","0","0","0","0">>, <<"1","x">>}]

\* one value per key, each applied by Text
TextAllOn ==
    [Align |-> <<"c","e","n","t","e","r">>, EM |-> <<"t","r","u","e">>,
     UL |-> <<"1">>, Reverse |-> <<"t","r","u","e">>, Rotate |-> <<"1">>,
     Font |-> <<"f","o","n","t","_","b">>, DW |-> <<"t","r","u","e">>,
     DH |-> <<"1">>, Width |-> <<"3">>, Height |-> <<"7">>,
     X |-> <<"3","0","0">>, Y |-> <<"7","0","0","0","0">>]

TextPayloads ==
    {<<>>, <<"a">>, <<"a","&","l","t",";","b">>, <<"&","a","m","p",";","l","t",";">>,
     <<"&","a","m","p",";","#","9",";">>, <<"&","q","u","o","t",";","&","a","m","p",";">>}

\* orders of the range over textReplaceMap: the keys other than "&amp;" in the
\* order of the source, "&amp;" at each of the nine places
OtherKeys ==
    << <<"&","#","9",";">>, <<"&","#","x","9",";">>, <<"&","#","1","0",";">>,
       <<"&","#","x","A",";">>, <<"&","a","p","o","s",";">>,
       <<"&","q","u","o","t",";">>, <<"&","g","t",";">>, <<"&","l","t",";">> >>
ReplaceOrders ==
    {SubSeq(OtherKeys, 1, i) \o << <<"&","a","m","p",";">> >> \o
     SubSeq(OtherKeys, i + 1, Len(OtherKeys)) : i \in 0 .. Len(OtherKeys)}
AmpFirst == << <<"&","a","m","p",";">> >> \o OtherKeys
AmpLast == OtherKeys \o << <<"&","a","m","p",";">> >>

\* the inputs of Text: (params, data, order)
TextJobsSmall ==
    {<<p, <<"a">>, AmpLast>> : p \in {NoParams} \cup Params1(TextValues)}
    \cup {<<NoParams, d, o>> : d \in TextPayloads, o \in {AmpFirst, AmpLast}}
TextJobsWide ==
    TextJobsSmall
    \cup {<<p, <<"a">>, AmpLast>> : p \in Params2(TextPairValues) \cup ParamsMost(TextAllOn)}
    \cup {<<p, d, o>> : p \in {NoParams, TextAllOn}, d \in TextPayloads, o \in ReplaceOrders}

FeedValues ==
    [Line |-> {<<"0">>, <<"3">>, <<"3","0","0">>, <<"-","1">>, <<"x">>},
     Unit |-> {<<"1","0">>, <<"7","0","0","0","0">>, <<"x">>}]
CutValues == [Type |-> {<<"f","e","e","d">>, <<"f","u","l","l">>}]
ImageValues ==
    [Align |-> {<<"c","e","n","t","e","r">>, <<"b","o","g","u","s">>},
     Width |-> {<<"1","6">>, <<"x">>}, Height |-> {<<"1","6">>, <<"x">>}]

Patterns == {"black", "white", "checker", "edges", "stripes", "glass"}
\* sizes whose width>>3 or height does not fit one byte
WideSizes == {<<2056, 8>>, <<9, 258>>}
Undecodable == {[kind |-> k, w |-> 0, h |-> 0, pat |-> "none"] :
                k \in {"badbase64", "corruptpng"}}
Png(w, h, pat) == [kind |-> "png", w |-> w, h |-> h, pat |-> pat]
ImagesSmall ==
    Undecodable \cup {Png(8, 8, "checker"), Png(10, 10, "black"), Png(3, 9, "edges")}
ImagesWide ==
    {Png(w, h, pat) : w \in 1 .. MaxDim, h \in 1 .. MaxDim, pat \in Patterns}
    \cup {Png(s[1], s[2], pat) : s \in WideSizes, pat \in {"black", "edges"}}

\* the inputs of Image: (params, data)
ImageJobsSmall ==
    {<<p, d>> : p \in ParamsOf([Align |-> <<"b","o","g","u","s">>, Width |-> <<"8">>,
                                Height |-> <<"x">>]),
               d \in ImagesSmall}
ImageJobsWide ==
    {<<p, d>> : p \in ParamsAll(ImageValues), d \in ImagesSmall}
    \cup {<<[Width |-> <<"1","6">>, Height |-> <<"1","6">>], d>> : d \in ImagesWide}

\* the inputs of WriteNode: (params, data, image, order)
WriteNodeJobs ==
    {<<[Name |-> <<"t","e","x","t">>, Width |-> <<"2","6","4">>, Height |-> <<"7">>,
        EM |-> <<"t","r","u","e">>], <<"a">>, NoImage, AmpLast>>,
     <<[Name |-> <<"t","e","x","t">>, Width |-> <<"0">>, Height |-> <<"9">>],
       <<"a">>, NoImage, AmpLast>>,
     <<[Name |-> <<"f","e","e","d">>, Line |-> <<"3">>], <<>>, NoImage, AmpLast>>,
     <<[Name |-> <<"c","u","t">>, Type |-> <<"f","e","e","d">>], <<>>, NoImage, AmpLast>>,
     <<[Name |-> <<"p","u","l","s","e">>], <<>>, NoImage, AmpLast>>,
     <<[Name |-> <<>>], <<>>, NoImage, AmpLast>>,
     <<[Name |-> <<"i","m","a","g","e">>, Width |-> <<"8">>, Height |-> <<"8">>],
       <<>>, Png(8, 8, "checker"), AmpLast>>,
     <<[Name |-> <<"b","o","g","u","s">>, Width |-> <<"9">>], <<"a">>, NoImage, AmpLast>>,
     <<[Width |-> <<"9">>], <<"a">>, NoImage, AmpLast>>}

----------------------------------------------------------------------------
(* The state machine *)

Op(name) == [name |-> name, params |-> NoParams, data |-> <<>>, order |-> <<>>,
             img |-> NoImage, a |-> 0, b |-> 0]

\* the caller is single-threaded: it calls an operation, which runs from
\* Start(e) to m and returns r, takes the result (Return), and calls the next
Do(o, m, r) ==
    /\ op.name = "none"
    /\ e' = m.e
    /\ out' = m.w
    /\ rejected' = m.rej
    /\ log' = m.log
    /\ panic' = m.panic
    /\ ret' = r
    /\ printer' = PrinterAfter(printer, m.w, m.rej)
    /\ op' = o
    /\ pre' = e

Init ==
    /\ e = New.e
    /\ out = <<>>
    /\ rejected = <<>>
    /\ log = <<>>
    /\ panic = FALSE
    /\ ret = "void"
    /\ printer = PrinterDefaults
    /\ op = Op("none")
    /\ pre = New.e

Return ==
    /\ op.name # "none"
    /\ out' = <<>>
    /\ rejected' = <<>>
    /\ log' = <<>>
    /\ panic' = FALSE
    /\ ret' = "void"
    /\ op' = Op("none")
    /\ pre' = e
    /\ UNCHANGED <<e, printer>>

InitAct == Do(Op("Init"), EscposInit(Start(e)), "void")

SetFontSizeAct ==
    \E width \in 0 .. MaxArg, height \in 0 .. MaxArg :
        Do([Op("SetFontSize") EXCEPT !.a = width, !.b = height],
           SetFontSize(Start(e), width, height), "void")

SetUnderlineAct ==
    \E v \in Bit : Do([Op("SetUnderline") EXCEPT !.a = v], SetUnderline(Start(e), v), "void")
SetEmphasizeAct ==
    \E v \in Bit : Do([Op("SetEmphasize") EXCEPT !.a = v], SetEmphasize(Start(e), v), "void")
SetUpsidedownAct ==
    \E v \in Bit : Do([Op("SetUpsidedown") EXCEPT !.a = v], SetUpsidedown(Start(e), v), "void")
SetRotateAct ==
    \E v \in Bit : Do([Op("SetRotate") EXCEPT !.a = v], SetRotate(Start(e), v), "void")
SetReverseAct ==
    \E v \in Bit : Do([Op("SetReverse") EXCEPT !.a = v], SetReverse(Start(e), v), "void")

SetFontAct ==
    \E font \in {<<"A">>, <<"B">>, <<"C">>, <<"D">>} :
        Do([Op("SetFont") EXCEPT !.data = font], SetFont(Start(e), font), "void")

SetAlignAct ==
    \E align \in AlignValues \cup {<<>>, <<"L","e","f","t">>} :
        Do([Op("SetAlign") EXCEPT !.data = align], SetAlign(Start(e), align), "void")

SetMoveXAct ==
    \E x \in {0, 300, 65535} :
        Do([Op("SetMoveX") EXCEPT !.a = x], SetMoveX(Start(e), x), "void")

PulseAct == Do(Op("Pulse"), Pulse(Start(e)), "void")

TextOver(jobs) ==
    \E j \in jobs :
        Do([Op("Text") EXCEPT !.params = j[1], !.data = j[2], !.order = j[3]],
           Text(Start(e), j[1], j[2], j[3]), "void")

FeedAct ==
    \E params \in ParamsAll(FeedValues) :
        Do([Op("Feed") EXCEPT !.params = params], Feed(Start(e), params), "void")

FeedAndCutAct ==
    \E params \in ParamsAll(CutValues) :
        Do([Op("FeedAndCut") EXCEPT !.params = params],
           FeedAndCut(Start(e), params), "void")

ImageOver(jobs) ==
    \E j \in jobs :
        Do([Op("Image") EXCEPT !.params = j[1], !.img = j[2]],
           Image(Start(e), j[1], j[2]), "void")

WriteNodeAct ==
    \E j \in WriteNodeJobs :
        Do([Op("WriteNode") EXCEPT !.params = j[1], !.data = j[2], !.img = j[3],
                                   !.order = j[4]],
           WriteNode(Start(e), j[1], j[2], j[3], j[4]), "void")

TextAct == TextOver(TextJobsSmall)
ImageAct == ImageOver(ImageJobsSmall)

Next ==
    \/ InitAct
    \/ SetFontSizeAct
    \/ SetUnderlineAct
    \/ SetEmphasizeAct
    \/ SetUpsidedownAct
    \/ SetRotateAct
    \/ SetReverseAct
    \/ SetFontAct
    \/ SetAlignAct
    \/ SetMoveXAct
    \/ PulseAct
    \/ TextAct
    \/ FeedAct
    \/ FeedAndCutAct
    \/ ImageAct
    \/ WriteNodeAct
    \/ Return

Spec == Init /\ [][Next]_vars

\* Text alone, over the wide set of parameter maps
TextWideAct == TextOver(TextJobsWide)
NextText == TextWideAct \/ Return
SpecText == Init /\ [][NextText]_vars

\* Image alone, over every size up to MaxDim x MaxDim
ImageWideAct == ImageOver(ImageJobsWide)
NextImage == ImageWideAct \/ Return
SpecImage == Init /\ [][NextImage]_vars

\* Feed, Text and WriteRaw on a dst whose Write starts to fail
FeedFailingAct ==
    \E params \in ParamsAll(FeedValues), k \in 0 .. MaxAccept :
        Do([Op("Feed") EXCEPT !.params = params, !.a = k],
           Feed(StartFailing(e, k), params), "void")
TextFailingJobs ==
    {<<p, <<"a">>, AmpLast>> :
        p \in {NoParams, TextAllOn, [EM |-> <<"t","r","u","e">>, X |-> <<"3","0","0">>]}}
TextFailingAct ==
    \E j \in TextFailingJobs, k \in 0 .. MaxAccept :
        Do([Op("Text") EXCEPT !.params = j[1], !.data = j[2], !.order = j[3], !.a = k],
           Text(StartFailing(e, k), j[1], j[2], j[3]), "void")
WriteRawFailingAct ==
    \E data \in {<<>>, <<10>>, <<ESC, 64>>}, k \in 0 .. MaxAccept :
        Do([Op("WriteRaw") EXCEPT !.data = data, !.a = k],
           WriteRaw(StartFailing(e, k), data),
           WriteRawResult(StartFailing(e, k), data).err)
NextSink == FeedFailingAct \/ TextFailingAct \/ WriteRawFailingAct \/ Return
SpecSink == Init /\ [][NextSink]_vars

----------------------------------------------------------------------------
(* Properties *)

Defaults == [width |-> 1, height |-> 1, underline |-> 0, emphasize |-> 0,
             upsidedown |-> 0, rotate |-> 0, reverse |-> 0]

\* the font-size byte of a width and a height, by arithmetic
FontByte(width, height) == 16 * (width - 1) + (height - 1)

\* C1: SetFontSize(w,h) with w in 1..8 and h in 1..5 stores exactly (w,h); with
\* h in 6..8 it stores (w,5); either way the one opcode written is GS '!' and
\* the byte ((width-1)<<4)|(height-1) of the stored values.
C1_SetFontSizeStores ==
    (op.name = "SetFontSize" /\ op.a \in 1 .. 8 /\ op.b \in 1 .. 8) =>
        /\ e.width = op.a
        /\ e.height = (IF op.b <= 5 THEN op.b ELSE 5)
        /\ out = << <<GS, 33, FontByte(e.width, e.height)>> >>

C1_Witness ==
    /\ op.name = "SetFontSize" /\ op.a = 8 /\ op.b = 7
    /\ pre.width = 2 /\ pre.height = 3
    /\ e.width = 8 /\ e.height = 5
    /\ out = << <<GS, 33, 116>> >>

ToggleOps ==
    [SetUnderline |-> <<"underline", ESC, 45>>, SetEmphasize |-> <<"emphasize", ESC, 69>>,
     SetUpsidedown |-> <<"upsidedown", ESC, 123>>, SetRotate |-> <<"rotate", ESC, 86>>,
     SetReverse |-> <<"reverse", GS, 66>>]

\* C2: each of the five toggle setters, called with v in {0,1}, writes exactly
\* one 3-byte opcode whose last byte is v, leaves its own field equal to v and
\* leaves the other six fields as they were.
C2_ToggleSetters ==
    (op.name \in DOMAIN ToggleOps /\ op.a \in Bit) =>
        LET t == ToggleOps[op.name]
        IN  /\ out = << <<t[2], t[3], op.a>> >>
            /\ e[t[1]] = op.a
            /\ \A f \in DOMAIN e \ {t[1]} : e[f] = pre[f]

C2_Witness ==
    /\ op.name = "SetEmphasize" /\ op.a = 1
    /\ pre.emphasize = 0 /\ pre.underline = 0 /\ pre.width = 3
    /\ e.emphasize = 1 /\ e.underline = 0
    /\ out = << <<ESC, 69, 1>> >>

\* C3: after Feed returns, whatever the prior state and whatever the
\* parameters (Line and Unit present or not, parsable or not), the session
\* state is the defaults.
C3_FeedResets ==
    op.name = "Feed" => e = Defaults

C3_Witness ==
    /\ op.name = "Feed"
    /\ pre.width = 3 /\ pre.height = 5 /\ pre.reverse = 1 /\ pre.underline = 1
    /\ Has(op.params, "Line") /\ ~Atoi(op.params["Line"]).ok
    /\ Has(op.params, "Unit")
    /\ e = Defaults

\* C4: SetFontSize(w,h) with w or h outside 1..8 (0 included) leaves width,
\* height and every toggle as they were and writes nothing.
C4_RejectedSetFontSize ==
    (op.name = "SetFontSize" /\ ~(op.a \in 1 .. 8 /\ op.b \in 1 .. 8)) =>
        /\ e = pre
        /\ out = <<>>

C4_Witness ==
    /\ op.name = "SetFontSize" /\ op.a = 0 /\ op.b = 3
    /\ pre.width = 4 /\ pre.height = 2 /\ pre.rotate = 1
    /\ e = pre /\ out = <<>> /\ log = <<"Critical">>

\* C5: in every reachable state the session and the printer agree: for each of
\* the six style settings the stored value is the parameter of the opcode last
\* written for it, or the default if none was written since New or since the
\* last ESC @.
C5_SessionAgreesWithPrinter ==
    /\ printer.underline = e.underline
    /\ printer.emphasize = e.emphasize
    /\ printer.upsidedown = e.upsidedown
    /\ printer.rotate = e.rotate
    /\ printer.reverse = e.reverse
    /\ printer.fontsize = FontByte(e.width, e.height)

C5_Witness ==
    /\ op.name = "Feed"
    /\ pre.reverse = 1 /\ pre.upsidedown = 1 /\ pre.width = 2 /\ pre.height = 4
    /\ printer = PrinterDefaults
    /\ e = Defaults

\* C6: an Image operation whose payload is not valid base64 or not a decodable
\* PNG writes no byte to the sink, whatever the parameters (Align included),
\* and the decode error reaches the caller of Image.
C6_UndecodableImageWritesNothing ==
    (op.name = "Image" /\ op.img.kind # "png") =>
        /\ out = <<>>
        /\ ret = "decode"

\* C7: an Image operation without Width or Height, or with a Width or Height
\* that does not parse as an integer, writes no byte to the sink, also when
\* the payload is a valid base64-encoded PNG.
C7_ImageNeedsWidthAndHeight ==
    (/\ op.name = "Image"
     /\ \/ ~Has(op.params, "Width")
        \/ ~Has(op.params, "Height")
        \/ ~Atoi(op.params["Width"]).ok
        \/ ~Atoi(op.params["Height"]).ok) =>
        out = <<>>

\* the frame PrintImage wrote in the last operation, and its packed bitmap
Frame == out[Len(out)]
Packed == SubSeq(Frame, 9, Len(Frame))
\* the pixels rasterize is given: flattened over white, then binarized
Binarized(img) == makeGrayscale(removeTransparency(getPixels(img).pixels))
\* bit k (0 the least significant) of byte b
BitOf(b, k) == (b \div (2 ^ k)) % 2

\* C8: for an image of W x H pixels, with printWidth = floor(W/8)*8 and
\* printHeight = floor(H/8)*8, the packed bitmap has printWidth*printHeight/8
\* bytes, and bit 7-j of the byte at y*(printWidth/8)+k is 1 exactly when the
\* binarized pixel (8k+j, y) has red channel 0; so 16x16 black gives 32 bytes
\* 0xFF, 16x16 white 32 bytes 0x00, and 10x10 black gives 8 bytes.
C8_PackedBitmap ==
    (op.name = "Image" /\ op.img.kind = "png") =>
        LET printWidth == (op.img.w \div 8) * 8
            printHeight == (op.img.h \div 8) * 8
            pixels == Binarized(op.img)
        IN  /\ Len(Packed) = (printWidth * printHeight) \div 8
            /\ \A y \in 0 .. printHeight - 1 : \A k \in 0 .. (printWidth \div 8) - 1 :
                 \A j \in 0 .. 7 :
                    BitOf(Packed[y * (printWidth \div 8) + k + 1], 7 - j) = 1
                        <=> pixels[y][8 * k + j].R = 0
            /\ op.img = Png(16, 16, "black") => Packed = [i \in 1 .. 32 |-> 255]
            /\ op.img = Png(16, 16, "white") => Packed = [i \in 1 .. 32 |-> 0]
            /\ op.img = Png(10, 10, "black") => Packed = [i \in 1 .. 8 |-> 255]

C8_Witness ==
    /\ op.name = "Image" /\ op.img = Png(13, 16, "edges")
    /\ Len(Packed) = 16
    /\ Packed[1] = 0 /\ Packed[16] = 255

\* C9: for a decoded image of W x H pixels PrintImage issues one write: the
\* bytes 1D 76 30 00, then (W>>3)&0xFF, ((W>>3)>>8)&0xFF, H&0xFF, (H>>8)&0xFF of
\* the original sizes, then the packed bitmap; the declared height is H also
\* when only floor(H/8)*8 rows are packed.
C9_ImageFrame ==
    (op.name = "Image" /\ op.img.kind = "png") =>
        LET W == op.img.w
            H == op.img.h
        IN  /\ Len(out) = (IF Has(op.params, "Align") THEN 2 ELSE 1)
            /\ Has(op.params, "Align") => Len(out[1]) = 3 /\ out[1][2] = 97
            /\ SubSeq(Frame, 1, 8) =
                 <<29, 118, 48, 0, (W \div 8) % 256, (W \div 2048) % 256,
                   H % 256, (H \div 256) % 256>>
            /\ Len(Frame) = 8 + (W \div 8) * ((H \div 8) * 8)

C9_Witness ==
    /\ op.name = "Image" /\ op.img = Png(9, 258, "edges")
    /\ SubSeq(Frame, 5, 8) = <<1, 0, 2, 1>>
    /\ Len(Packed) = 256

\* the block of Text a write comes from, by its opcode: 7 stands for the four
\* font-size blocks (DW, DH, Width, Height), 13 for the payload
Block(w) ==
    IF Len(w) < 2 \/ w[1] \notin {ESC, GS} THEN 13
    ELSE CASE w[1] = ESC /\ w[2] = 97 -> 1
           [] w[1] = ESC /\ w[2] = 69 -> 2
           [] w[1] = ESC /\ w[2] = 45 -> 3
           [] w[1] = GS /\ w[2] = 66 -> 4
           [] w[1] = ESC /\ w[2] = 86 -> 5
           [] w[1] = ESC /\ w[2] = 77 -> 6
           [] w[1] = GS /\ w[2] = 33 -> 7
           [] w[1] = ESC /\ w[2] = 36 -> 11
           [] w[1] = GS /\ w[2] = 36 -> 12
           [] OTHER -> 13

\* whether the parameters allow a write of block b
Allowed(params, b) ==
    CASE b = 1 -> Has(params, "Align")
      [] b = 2 -> Has(params, "EM") /\ IsOn(params["EM"])
      [] b = 3 -> Has(params, "UL") /\ IsOn(params["UL"])
      [] b = 4 -> Has(params, "Reverse") /\ IsOn(params["Reverse"])
      [] b = 5 -> Has(params, "Rotate") /\ IsOn(params["Rotate"])
      [] b = 6 -> Has(params, "Font")
      [] b = 7 -> \/ Has(params, "DW") /\ IsOn(params["DW"])
                  \/ Has(params, "DH") /\ IsOn(params["DH"])
                  \/ Has(params, "Width")
                  \/ Has(params, "Height")
      [] b = 11 -> Has(params, "X")
      [] b = 12 -> Has(params, "Y")
      [] OTHER -> TRUE

FontSizeBlocks(params) ==
    Cardinality({k \in {"DW", "DH"} : Has(params, k) /\ IsOn(params[k])}
                \cup {k \in {"Width", "Height"} : Has(params, k)})

\* C10: the writes of a Text operation come in the order alignment, emphasize,
\* underline, reverse, rotate, font, double width, double height, width,
\* height, X move, Y move, payload; a block writes only if its key is present
\* (and on, for EM, UL, Reverse, Rotate, DW, DH); the payload is the
\* entity-substituted text and nothing is written after it.
C10_TextOrder ==
    op.name = "Text" =>
        LET b == [i \in 1 .. Len(out) |-> Block(out[i])]
            data1 == textReplace(op.data, op.order)
        IN  /\ \A i \in 1 .. Len(out) : \A j \in i + 1 .. Len(out) :
                  b[i] < b[j] \/ (b[i] = 7 /\ b[j] = 7)
            /\ \A i \in 1 .. Len(out) : Allowed(op.params, b[i])
            /\ Cardinality({i \in 1 .. Len(out) : b[i] = 7}) <= FontSizeBlocks(op.params)
            /\ \A i \in 1 .. Len(out) :
                  b[i] = 13 => i = Len(out) /\ out[i] = Bytes(data1)
            /\ (~panic /\ data1 # <<>>) => (out # <<>> /\ b[Len(out)] = 13)
            /\ (op.params = TextAllOn /\ pre = Defaults /\ op.data = <<"a">>) =>
                  out = << <<ESC, 97, 1>>, <<ESC, 69, 1>>, <<ESC, 45, 1>>, <<GS, 66, 1>>,
                           <<ESC, 86, 1>>, <<ESC, 77, 1>>, <<GS, 33, 16>>, <<GS, 33, 17>>,
                           <<GS, 33, 33>>, <<GS, 33, 36>>, <<ESC, 36, 44, 1>>,
                           <<GS, 36, 112, 17>>, <<97>> >>

C10_Witness ==
    /\ op.name = "Text" /\ op.params = TextAllOn /\ pre = Defaults
    /\ op.data = <<"&","a","m","p",";","l","t",";">>
    /\ Len(out) = 13
    /\ out[13] = <<60>>

\* the parameters without the key k
Without(params, k) == [x \in DOMAIN params \ {k} |-> params[x]]

\* C11: in Text, a Width, Height, X or Y that is present but does not parse as
\* an integer only skips its own block: the writes and the state are those of
\* the same Text without that key, one parameter error is logged, and the
\* payload is still written.
C11_MalformedNumberSkipped ==
    op.name = "Text" =>
        \A k \in {"Width", "Height", "X", "Y"} :
            (Has(op.params, k) /\ ~Atoi(op.params[k]).ok) =>
                LET m == Text(Start(pre), Without(op.params, k), op.data, op.order)
                    data1 == textReplace(op.data, op.order)
                IN  /\ out = m.w
                    /\ e = m.e
                    /\ panic = m.panic
                    /\ ~panic => Len(log) = Len(m.log) + 1
                    /\ (~panic /\ data1 # <<>>) =>
                          (out # <<>> /\ out[Len(out)] = Bytes(data1))

C11_Witness ==
    /\ op.name = "Text"
    /\ op.params = [X |-> <<"1","x">>, Width |-> <<"3">>]
    /\ pre.width = 1 /\ e.width = 3
    /\ out = << <<GS, 33, 32 + (e.height - 1)>>, <<97>> >>
    /\ log = <<"Critical">>

\* C12: when dst reports a write failure during an operation, no further
\* write of that operation is issued after the failed one, and the error is
\* returned to the caller (WriteRaw returns a non-nil error).
C12_SinkErrorIsFatal ==
    (\E i \in 1 .. Len(rejected) : rejected[i]) =>
        /\ \A i \in 1 .. Len(rejected) : rejected[i] => i = Len(out)
        /\ op.name = "WriteRaw" => ret # "nil"

\* C13: for every integer n given as Line, the count byte of the feed opcode
\* Feed writes is n clamped to 0..255, not n modulo 256.
C13_FeedLineClamped ==
    (op.name = "Feed" /\ Has(op.params, "Line") /\ Atoi(op.params["Line"]).ok) =>
        LET n == Atoi(op.params["Line"]).i
        IN  /\ Len(out[1]) = 3
            /\ out[1][3] = (IF n < 0 THEN 0 ELSE IF n > 255 THEN 255 ELSE n)

\* the field and the printer setting behind each toggle key of Text
TextToggles ==
    [EM |-> "emphasize", UL |-> "underline", Reverse |-> "reverse", Rotate |-> "rotate"]

\* C14: after a Text whose parameters do not have EM (UL, Reverse, Rotate) at
\* "true" or "1", that style is off: the stored field is 0 and the printer has
\* been told 0, also when an earlier Text turned it on.
C14_AbsentToggleIsOff ==
    op.name = "Text" =>
        \A k \in DOMAIN TextToggles :
            ~(Has(op.params, k) /\ IsOn(op.params[k])) =>
                (e[TextToggles[k]] = 0 /\ printer[TextToggles[k]] = 0)

\* C15 as claimed: after Init, after Feed and after FeedAndCut (with or
\* without Type=feed) all seven fields hold their defaults.
C15_ResetByInitFeedAndCut ==
    op.name \in {"Init", "Feed", "FeedAndCut"} => e = Defaults

\* C15, amended: after Init and after Feed all seven fields hold their
\* defaults, whatever the prior state; FeedAndCut (with or without
\* Type=feed) leaves all seven fields as they were.
C15_ResetByInitAndFeedOnly ==
    /\ op.name \in {"Init", "Feed"} => e = Defaults
    /\ op.name = "FeedAndCut" => e = pre

C15_Witness ==
    /\ op.name = "FeedAndCut"
    /\ Has(op.params, "Type") /\ op.params["Type"] = <<"f","e","e","d">>
    /\ pre.width = 3 /\ pre.height = 2 /\ pre.emphasize = 1
    /\ e = pre
    /\ out = << <<ESC, 74, 1>>, <<GS, 86, 65, 48>> >>

\* C16: SetAlign writes exactly one opcode ESC 'a' idx for every name, idx 0
\* for left, 1 for center, 2 for right and 0, with a warning logged, for any
\* other name; it changes no field of the session state.
C16_SetAlignAlwaysWrites ==
    op.name = "SetAlign" =>
        LET known == op.data \in {<<"l","e","f","t">>, <<"c","e","n","t","e","r">>,
                                  <<"r","i","g","h","t">>}
            idx == IF op.data = <<"c","e","n","t","e","r">> THEN 1
                   ELSE IF op.data = <<"r","i","g","h","t">> THEN 2 ELSE 0
        IN  /\ out = << <<ESC, 97, idx>> >>
            /\ log = (IF known THEN <<>> ELSE <<"Warn">>)
            /\ e = pre

C16_Witness ==
    /\ op.name = "SetAlign" /\ op.data = <<"b","o","g","u","s">>
    /\ out = << <<ESC, 97, 0>> >>
    /\ log = <<"Warn">>
    /\ pre.width = 3 /\ pre.rotate = 1 /\ e = pre

\* C17: for every Font value, the empty one and those shorter than six
\* characters included, Text returns normally, writes the font-select opcode
\* (font A for an unknown descriptor) and still writes the payload.
C17_AnyFontCompletes ==
    (op.name = "Text" /\ Has(op.params, "Font")) =>
        LET data1 == textReplace(op.data, op.order)
        IN  /\ ~panic
            /\ \E i \in 1 .. Len(out) : out[i] \in {<<ESC, 77, f>> : f \in 0 .. 2}
            /\ data1 # <<>> => (out # <<>> /\ out[Len(out)] = Bytes(data1))

\* C18: a Width or Height of Text that parses to an integer outside 1..8
\* (0, -1, 9, 257, 264) is rejected: with no other size key given, the stored
\* width and height are unchanged and no font-size opcode is written.
C18_SizeOutOfRangeRejected ==
    op.name = "Text" =>
        \A k \in {"Width", "Height"} :
            (/\ DOMAIN op.params \cap {"DW", "DH", "Width", "Height"} = {k}
             /\ Atoi(op.params[k]).ok
             /\ Atoi(op.params[k]).i \notin 1 .. 8) =>
                /\ e.width = pre.width /\ e.height = pre.height
                /\ \A i \in 1 .. Len(out) :
                       ~(Len(out[i]) = 3 /\ out[i][1] = GS /\ out[i][2] = 33)

\* C19: the entity substitution of Text does not depend on the order in which
\* the table is visited and never decodes twice: the payload written is the
\* one obtained with "&amp;" replaced last, so "&amp;lt;" gives "&lt;".
C19_EntityDecodingDeterministic ==
    (op.name = "Text" /\ ~panic) =>
        LET data1 == textReplace(op.data, AmpLast)
        IN  data1 # <<>> => (out # <<>> /\ out[Len(out)] = Bytes(data1))

\* C20: in every reachable state width is in 1..8, height in 1..5 and each
\* toggle is 0 or 1, so the font-size byte 16*(width-1)+(height-1) never
\* underflows.
C20_StateInRange ==
    /\ e.width \in 1 .. 8
    /\ e.height \in 1 .. 5
    /\ \A k \in {"underline", "emphasize", "upsidedown", "rotate", "reverse"} :
           e[k] \in {0, 1}
    /\ FontByte(e.width, e.height) \in 0 .. 255

C20_Witness ==
    /\ op.name = "WriteNode"
    /\ Has(op.params, "Name") /\ op.params["Name"] = <<"t","e","x","t">>
    /\ Has(op.params, "Width") /\ op.params["Width"] = <<"2","6","4">>
    /\ pre.width = 3 /\ pre.height = 2
    /\ e.width = 8 /\ e.height = 5 /\ e.emphasize = 1

====
